---- MODULE Spec2Model ----
(***************************************************************************)
(* Model of magma/core/thread/thread.c: the wrappers around the pthread    *)
(* primitives (launch, allocate-and-launch, join, join with result,        *)
(* signal, cancel, cancel enable/disable) together with the part of the    *)
(* platform they drive: the thread table and the handle heap.              *)
(*                                                                         *)
(* Every wrapper is first written as an operator that mirrors its          *)
(* if / else-if chain and yields the value returned, the platform calls    *)
(* made (in order, with their statuses) and the mclog_pedantic calls made  *)
(* (the log entries: source line and status logged).  The actions apply    *)
(* those operators to the platform state and keep the outcome of the       *)
(* wrapper call that returned last.                                        *)
(*                                                                         *)
(* Platform behaviour the source leaves open is a choice among statuses:   *)
(* pthread_attr_init and pthread_create may fail at any time, mm_alloc may *)
(* return NULL at any time, pthread_cancel / pthread_kill on a thread that *)
(* has exited but is not joined report either 0 or ESRCH, and a handle     *)
(* that names no joinable thread makes pthread_join report ESRCH or EINVAL.*)
(* Thread ids are handed out in order and never reused.                    *)
(***************************************************************************)
EXTENDS Integers, Sequences, FiniteSets, TLC

\* ------------------------------------------------------------------ bounds
NumCallers == 2     \* threads of the application that call the wrappers
MaxThreads == 2     \* thread ids the platform can hand out
MaxBlocks  == 1     \* pthread_t sized blocks the allocator can hand out
MaxCalls   == 3     \* wrapper calls made in one run

\* --------------------------------------------------------- program values
ESRCH == 3          \* errno compared against in thread_cancel

NULL            == 0            \* mm_alloc / thread_alloc failure value
NoThread        == 0            \* a pthread_t that names no thread
PTHREAD_CANCELED == 0 - 1       \* exit value of a cancelled thread

Callers   == 1..NumCallers
ThreadIds == 1..MaxThreads
Blocks    == 1..MaxBlocks

\* entry functions and arguments handed to launch (opaque to the wrappers)
Jobs == {[function |-> "echo", data |-> 5], [function |-> "next", data |-> 7]}

\* what the entry function of a thread returns for its argument
EntryFn(function, data) ==
    IF function = "echo" THEN data ELSE data + 1

\* magma_core.system.thread_stack_size: one rejected value, one accepted
StackSizes == {0, 1048576}
StackMin   == 16 * 1024

\* statuses of the platform calls that can fail for reasons outside the
\* program (12 = ENOMEM, 11 = EAGAIN, 22 = EINVAL)
AttrInitStatuses == {0, 12}
CreateFailures   == {11}
Signals          == {10, 99}
ValidSignals     == {10}

VARIABLES
    MAGMA_PEDANTIC,      \* build configuration: is MAGMA_PEDANTIC defined
    thread_stack_size,   \* magma_core.system.thread_stack_size
    threads,             \* platform thread table, by thread id
    heap,                \* allocator blocks, by address
    call,                \* per caller: the pthread_join it is blocked in, if any
    last,                \* the wrapper call that returned last, and its outcome
    ncalls               \* wrapper calls made so far

vars == <<MAGMA_PEDANTIC, thread_stack_size, threads, heap, call, last, ncalls>>

\* ------------------------------------------------------------ call traces
PCall(fn, st) == [fn |-> fn, st |-> st]
LogEntry(line, st) == [line |-> line, st |-> st]

\* number of calls of fn in a trace
RECURSIVE Count(_, _)
Count(calls, fn) ==
    IF calls = <<>> THEN 0
    ELSE (IF Head(calls).fn = fn THEN 1 ELSE 0) + Count(Tail(calls), fn)

\* status of the first call of fn in a trace (fn must occur)
StatusOf(calls, fn) ==
    LET i == CHOOSE k \in 1..Len(calls) :
                 /\ calls[k].fn = fn
                 /\ \A j \in 1..(k-1) : calls[j].fn # fn
    IN calls[i].st

\* position of the first call of fn in a trace, 0 when absent
PosOf(calls, fn) ==
    IF \E k \in 1..Len(calls) : calls[k].fn = fn
    THEN CHOOSE k \in 1..Len(calls) :
             /\ calls[k].fn = fn
             /\ \A j \in 1..(k-1) : calls[j].fn # fn
    ELSE 0

\* ------------------------------------------------------- platform results
pthread_attr_setstacksize(size) ==
    IF size < StackMin THEN 22 ELSE 0

\* ---------------------------------------------------------------- wrappers
\* thread_launch without the pthread_attr_destroy of the stack-size branch
thread_launch_leak(r_init, r_stack, r_create) ==
    IF r_init # 0
    THEN [result |-> r_init,
          calls  |-> <<PCall("pthread_attr_init", r_init)>>,
          logged |-> <<LogEntry(33, r_init)>>]
    ELSE IF r_stack # 0
    THEN [result |-> r_stack,
          calls  |-> <<PCall("pthread_attr_init", r_init),
                       PCall("pthread_attr_setstacksize", r_stack)>>,
          logged |-> <<LogEntry(37, r_stack)>>]
    ELSE [result |-> r_create,
          calls  |-> <<PCall("pthread_attr_init", r_init),
                       PCall("pthread_attr_setstacksize", r_stack),
                       PCall("pthread_create", r_create),
                       PCall("pthread_attr_destroy", 0)>>,
          logged |-> IF r_create # 0 THEN <<LogEntry(42, r_create)>> ELSE <<>>]

\* thread_launch that logs the stack-size failure but goes on to create the
\* thread before returning the stack-size status
thread_launch_goes_on(r_init, r_stack, r_create) ==
    IF r_init # 0
    THEN [result |-> r_init,
          calls  |-> <<PCall("pthread_attr_init", r_init)>>,
          logged |-> <<LogEntry(33, r_init)>>]
    ELSE IF r_stack # 0
    THEN [result |-> r_stack,
          calls  |-> <<PCall("pthread_attr_init", r_init),
                       PCall("pthread_attr_setstacksize", r_stack),
                       PCall("pthread_create", r_create),
                       PCall("pthread_attr_destroy", 0)>>,
          logged |-> <<LogEntry(37, r_stack)>>]
    ELSE [result |-> r_create,
          calls  |-> <<PCall("pthread_attr_init", r_init),
                       PCall("pthread_attr_setstacksize", r_stack),
                       PCall("pthread_create", r_create),
                       PCall("pthread_attr_destroy", 0)>>,
          logged |-> IF r_create # 0 THEN <<LogEntry(42, r_create)>> ELSE <<>>]

\* thread_launch, given the statuses the three platform calls would yield
thread_launch(r_init, r_stack, r_create) ==
    IF r_init # 0
    THEN [result |-> r_init,
          calls  |-> <<PCall("pthread_attr_init", r_init)>>,
          logged |-> <<LogEntry(33, r_init)>>]
    ELSE IF r_stack # 0
    THEN [result |-> r_stack,
          calls  |-> <<PCall("pthread_attr_init", r_init),
                       PCall("pthread_attr_setstacksize", r_stack),
                       PCall("pthread_attr_destroy", 0)>>,
          logged |-> <<LogEntry(37, r_stack)>>]
    ELSE IF r_create # 0
    THEN [result |-> r_create,
          calls  |-> <<PCall("pthread_attr_init", r_init),
                       PCall("pthread_attr_setstacksize", r_stack),
                       PCall("pthread_create", r_create),
                       PCall("pthread_attr_destroy", 0)>>,
          logged |-> <<LogEntry(42, r_create)>>]
    ELSE [result |-> 0,
          calls  |-> <<PCall("pthread_attr_init", r_init),
                       PCall("pthread_attr_setstacksize", r_stack),
                       PCall("pthread_create", r_create),
                       PCall("pthread_attr_destroy", 0)>>,
          logged |-> <<>>]

\* thread_alloc without the mm_free of the failure branch
thread_alloc_leak(p, launch) ==
    IF p = NULL
    THEN [result |-> NULL,
          calls  |-> <<PCall("mm_alloc", NULL)>>,
          logged |-> <<LogEntry(64, 0)>>]
    ELSE IF launch.result # 0
    THEN [result |-> NULL,
          calls  |-> <<PCall("mm_alloc", p)>> \o launch.calls,
          logged |-> launch.logged \o <<LogEntry(68, launch.result)>>]
    ELSE [result |-> p,
          calls  |-> <<PCall("mm_alloc", p)>> \o launch.calls,
          logged |-> launch.logged]

\* thread_alloc that tests the allocation only after launching
thread_alloc_late_check(p, launch) ==
    IF launch.result # 0
    THEN [result |-> NULL,
          calls  |-> <<PCall("mm_alloc", p)>> \o launch.calls
                        \o (IF p # NULL THEN <<PCall("mm_free", p)>> ELSE <<>>),
          logged |-> launch.logged \o <<LogEntry(68, launch.result)>>]
    ELSE IF p = NULL
    THEN [result |-> NULL,
          calls  |-> <<PCall("mm_alloc", NULL)>> \o launch.calls,
          logged |-> launch.logged \o <<LogEntry(64, 0)>>]
    ELSE [result |-> p,
          calls  |-> <<PCall("mm_alloc", p)>> \o launch.calls,
          logged |-> launch.logged]

\* thread_alloc that hands the freed block back instead of NULL
thread_alloc_dangling(p, launch) ==
    IF p = NULL
    THEN [result |-> NULL,
          calls  |-> <<PCall("mm_alloc", NULL)>>,
          logged |-> <<LogEntry(64, 0)>>]
    ELSE IF launch.result # 0
    THEN [result |-> p,
          calls  |-> <<PCall("mm_alloc", p)>> \o launch.calls
                        \o <<PCall("mm_free", p)>>,
          logged |-> launch.logged \o <<LogEntry(68, launch.result)>>]
    ELSE [result |-> p,
          calls  |-> <<PCall("mm_alloc", p)>> \o launch.calls,
          logged |-> launch.logged]

\* thread_alloc, given what mm_alloc returns and what thread_launch does
thread_alloc(p, launch) ==
    IF p = NULL
    THEN [result |-> NULL,
          calls  |-> <<PCall("mm_alloc", NULL)>>,
          logged |-> <<LogEntry(64, 0)>>]
    ELSE IF launch.result # 0
    THEN [result |-> NULL,
          calls  |-> <<PCall("mm_alloc", p)>> \o launch.calls
                        \o <<PCall("mm_free", p)>>,
          logged |-> launch.logged \o <<LogEntry(68, launch.result)>>]
    ELSE [result |-> p,
          calls  |-> <<PCall("mm_alloc", p)>> \o launch.calls,
          logged |-> launch.logged]

\* thread_join that does not log the failure
thread_join_silent(ret, retval) ==
    [result |-> ret,
     value  |-> 0,
     calls  |-> <<PCall("pthread_join", ret)>>,
     logged |-> <<>>]

\* thread_join, given the status pthread_join yields and the exit value of
\* the target: pthread_join is handed NULL, the exit value is dropped
thread_join(ret, retval) ==
    [result |-> ret,
     value  |-> 0,
     calls  |-> <<PCall("pthread_join", ret)>>,
     logged |-> IF ret # 0 THEN <<LogEntry(87, ret)>> ELSE <<>>]

\* thread_result that hands pthread_join NULL, as thread_join does
thread_result_drops_value(ret, retval) ==
    [result |-> ret,
     value  |-> 0,
     calls  |-> <<PCall("pthread_join", ret)>>,
     logged |-> IF ret # 0 THEN <<LogEntry(105, ret)>> ELSE <<>>]

\* thread_result, given the status pthread_join yields and the exit value of
\* the target: a successful pthread_join stores it through the result pointer
thread_result(ret, retval) ==
    [result |-> ret,
     value  |-> IF ret = 0 THEN retval ELSE 0,
     calls  |-> <<PCall("pthread_join", ret)>>,
     logged |-> IF ret # 0 THEN <<LogEntry(105, ret)>> ELSE <<>>]

\* thread_signal that logs a failure as the other wrappers do
thread_signal_logs(ret) ==
    [result |-> ret,
     calls  |-> <<PCall("pthread_kill", ret)>>,
     logged |-> IF ret # 0 THEN <<LogEntry(119, ret)>> ELSE <<>>]

\* thread_signal, given the status pthread_kill yields
thread_signal(ret) ==
    [result |-> ret,
     calls  |-> <<PCall("pthread_kill", ret)>>,
     logged |-> <<>>]

\* thread_cancel whose MAGMA_PEDANTIC branch reports ESRCH as success
thread_cancel_hides_esrch(pedantic, ret) ==
    IF pedantic
    THEN [result |-> IF ret = ESRCH THEN 0 ELSE ret,
          calls  |-> <<PCall("pthread_cancel", ret)>>,
          logged |-> IF ret # 0 /\ ret # ESRCH
                     THEN <<LogEntry(134, ret)>> ELSE <<>>]
    ELSE [result |-> ret,
          calls  |-> <<PCall("pthread_cancel", ret)>>,
          logged |-> <<>>]

\* thread_cancel that logs every non-zero status, ESRCH included
thread_cancel_logs_esrch(pedantic, ret) ==
    IF pedantic
    THEN [result |-> ret,
          calls  |-> <<PCall("pthread_cancel", ret)>>,
          logged |-> IF ret # 0 THEN <<LogEntry(134, ret)>> ELSE <<>>]
    ELSE [result |-> ret,
          calls  |-> <<PCall("pthread_cancel", ret)>>,
          logged |-> <<>>]

\* thread_cancel in the build with (pedantic) or without MAGMA_PEDANTIC,
\* given the status pthread_cancel yields
thread_cancel(pedantic, ret) ==
    IF pedantic
    THEN [result |-> ret,
          calls  |-> <<PCall("pthread_cancel", ret)>>,
          logged |-> IF ret # 0 /\ ret # ESRCH
                     THEN <<LogEntry(134, ret)>> ELSE <<>>]
    ELSE [result |-> ret,
          calls  |-> <<PCall("pthread_cancel", ret)>>,
          logged |-> <<>>]

\* thread_cancel_enable that passes PTHREAD_CANCEL_DISABLE
thread_cancel_enable_disables(table, self) ==
    [table EXCEPT ![self].cancelstate = "disable"]

\* thread_cancel_enable called by thread self: the thread table after
\* pthread_setcancelstate(PTHREAD_CANCEL_ENABLE, NULL)
thread_cancel_enable(table, self) ==
    [table EXCEPT ![self].cancelstate = "enable"]

\* thread_cancel_disable called by thread self: the thread table after
\* pthread_setcancelstate(PTHREAD_CANCEL_DISABLE, NULL)
thread_cancel_disable(table, self) ==
    [table EXCEPT ![self].cancelstate = "disable"]

\* ----------------------------------------------------------------- records
NewThread == [state |-> "free", function |-> "echo", data |-> 5, retval |-> 0,
              runs |-> 0, cancelstate |-> "enable", cancelpending |-> FALSE]

Idle == [pc |-> "idle", op |-> "none", thread |-> NoThread, tstate |-> "free"]

NoCall == [op |-> "none", function |-> "none", data |-> 0,
           thread |-> NoThread, tstate |-> "free", tcancel |-> "enable",
           result |-> 0, value |-> 0, calls |-> <<>>, logged |-> <<>>]

\* the call of wrapper op that returned with outcome r
Done(op, r) == [NoCall EXCEPT !.op = op, !.result = r.result,
                              !.calls = r.calls, !.logged = r.logged]

FreeIds == {t \in ThreadIds : threads[t].state = "free"}
Alive(t) == threads[t].state \in {"created", "running"}

\* the callers blocked in pthread_join on thread h
Waiters(h) == {c \in Callers : call[c].pc = "blocked" /\ call[c].thread = h}

\* did the calls of a trace start a thread
Spawned(calls) ==
    /\ PosOf(calls, "pthread_create") # 0
    /\ StatusOf(calls, "pthread_create") = 0

\* the thread table after the platform calls of a trace: pthread_create with
\* status 0 makes thread t, bound to the entry function and its argument
Created(calls, t, function, data) ==
    IF Spawned(calls)
    THEN [threads EXCEPT ![t] = [NewThread EXCEPT !.state = "created",
                                                  !.function = function,
                                                  !.data = data]]
    ELSE threads

\* the block the calls of a trace leave allocated, NULL when none
Held(calls) ==
    IF /\ PosOf(calls, "mm_alloc") # 0
       /\ StatusOf(calls, "mm_alloc") # NULL
       /\ Count(calls, "mm_free") = 0
    THEN StatusOf(calls, "mm_alloc") ELSE NULL

\* the id pthread_create gives the next thread: ids are handed out in order
\* and never reused; NoThread when the platform has none left
NextId ==
    IF FreeIds = {} THEN NoThread
    ELSE CHOOSE t \in FreeIds : \A u \in FreeIds : t <= u

\* statuses the platform calls can yield in the current state
CreateStatuses == (IF FreeIds # {} THEN {0} ELSE {}) \cup CreateFailures

\* the allocator hands out the lowest unused block, or fails
AllocResults ==
    LET unused == {a \in Blocks : ~heap[a].used}
    IN (IF unused = {} THEN {}
        ELSE {CHOOSE a \in unused : \A b \in unused : a <= b}) \cup {NULL}

JoinFailures(h) ==
    IF threads[h].state \in {"free", "joined"} THEN {ESRCH, 22}
    ELSE IF Waiters(h) # {} THEN {22}
    ELSE {}

KillStatuses(h, sig) ==
    IF threads[h].state \in {"free", "joined"} THEN {ESRCH}
    ELSE IF sig \notin ValidSignals THEN {22}
    ELSE IF threads[h].state = "exited" THEN {0, ESRCH}
    ELSE {0}

CancelStatuses(h) ==
    IF threads[h].state = "free" THEN {ESRCH, 22}
    ELSE IF threads[h].state = "joined" THEN {ESRCH}
    ELSE IF threads[h].state = "exited" THEN {0, ESRCH}
    ELSE {0}

\* a join that does not wait for the target to terminate
pthread_join_no_wait(h) == threads[h].state \in {"running", "exited"}

\* pthread_join returns to its caller once the target has terminated
pthread_join_ready(h) == threads[h].state = "exited"

Init ==
    /\ MAGMA_PEDANTIC \in BOOLEAN
    /\ thread_stack_size \in StackSizes
    /\ threads = [t \in ThreadIds |-> NewThread]
    /\ heap = [a \in Blocks |-> [used |-> FALSE, val |-> NoThread]]
    /\ call = [c \in Callers |-> Idle]
    /\ last = NoCall
    /\ ncalls = 0

\* caller c calls thread_launch(&storage, function, data)
ThreadLaunch(c) ==
    /\ call[c].pc = "idle"
    /\ ncalls < MaxCalls
    /\ ncalls' = ncalls + 1
    /\ \E job \in Jobs,
          r_init \in AttrInitStatuses, r_create \in CreateStatuses,
          t \in {NextId} :
         LET r == thread_launch(r_init,
                                pthread_attr_setstacksize(thread_stack_size),
                                r_create)
         IN /\ Spawned(r.calls) => t # NoThread
            /\ threads' = Created(r.calls, t, job.function, job.data)
            /\ last' = [Done("thread_launch", r) EXCEPT
                              !.function = job.function, !.data = job.data,
                              !.thread = IF Spawned(r.calls) THEN t ELSE NoThread]
    /\ UNCHANGED <<MAGMA_PEDANTIC, thread_stack_size, heap, call>>

\* caller c calls thread_alloc(function, data)
ThreadAlloc(c) ==
    /\ call[c].pc = "idle"
    /\ ncalls < MaxCalls
    /\ ncalls' = ncalls + 1
    /\ \E job \in Jobs, p \in AllocResults,
          r_init \in AttrInitStatuses, r_create \in CreateStatuses,
          t \in {NextId} :
         LET r == thread_alloc(p,
                    thread_launch(r_init,
                                  pthread_attr_setstacksize(thread_stack_size),
                                  r_create))
         IN /\ Spawned(r.calls) => t # NoThread
            /\ threads' = Created(r.calls, t, job.function, job.data)
            /\ heap' = IF Held(r.calls) # NULL
                       THEN [heap EXCEPT ![Held(r.calls)] =
                                [used |-> TRUE,
                                 val  |-> IF Spawned(r.calls) THEN t
                                                              ELSE NoThread]]
                       ELSE heap
            /\ last' = [Done("thread_alloc", r) EXCEPT
                              !.function = job.function, !.data = job.data,
                              !.thread = IF Spawned(r.calls) THEN t ELSE NoThread]
    /\ UNCHANGED <<MAGMA_PEDANTIC, thread_stack_size, call>>

\* caller c calls thread_join(h): pthread_join fails at once, or blocks
ThreadJoin(c) ==
    /\ call[c].pc = "idle"
    /\ ncalls < MaxCalls
    /\ ncalls' = ncalls + 1
    /\ \E h \in ThreadIds :
         IF JoinFailures(h) # {}
         THEN \E ret \in JoinFailures(h) :
                LET r == thread_join(ret, 0)
                IN /\ last' = [Done("thread_join", r) EXCEPT
                                  !.thread = h, !.value = r.value,
                                  !.tstate = threads[h].state]
                   /\ UNCHANGED call
         ELSE /\ call' = [call EXCEPT ![c] =
                            [pc |-> "blocked", op |-> "thread_join", thread |-> h,
                             tstate |-> threads[h].state]]
              /\ UNCHANGED last
    /\ UNCHANGED <<MAGMA_PEDANTIC, thread_stack_size, threads, heap>>

\* caller c calls thread_result(h, &value): pthread_join fails at once, or
\* blocks
ThreadResult(c) ==
    /\ call[c].pc = "idle"
    /\ ncalls < MaxCalls
    /\ ncalls' = ncalls + 1
    /\ \E h \in ThreadIds :
         IF JoinFailures(h) # {}
         THEN \E ret \in JoinFailures(h) :
                LET r == thread_result(ret, 0)
                IN /\ last' = [Done("thread_result", r) EXCEPT
                                  !.thread = h, !.value = r.value,
                                  !.tstate = threads[h].state]
                   /\ UNCHANGED call
         ELSE /\ call' = [call EXCEPT ![c] =
                            [pc |-> "blocked", op |-> "thread_result", thread |-> h,
                             tstate |-> threads[h].state]]
              /\ UNCHANGED last
    /\ UNCHANGED <<MAGMA_PEDANTIC, thread_stack_size, threads, heap>>

\* the pthread_join that caller c is blocked in, inside thread_join, returns
\* 0: the target is reaped and thread_join returns
ThreadJoinReturn(c) ==
    /\ call[c].pc = "blocked"
    /\ call[c].op = "thread_join"
    /\ LET h == call[c].thread
           r == thread_join(0, threads[h].retval)
       IN /\ pthread_join_ready(h)
          /\ threads' = [threads EXCEPT ![h].state = "joined"]
          /\ call' = [call EXCEPT ![c] = Idle]
          /\ last' = [Done("thread_join", r) EXCEPT
                         !.thread = h, !.value = r.value,
                         !.tstate = call[c].tstate]
    /\ UNCHANGED <<MAGMA_PEDANTIC, thread_stack_size, heap, ncalls>>

\* the pthread_join that caller c is blocked in, inside thread_result,
\* returns 0: the target is reaped, its exit value stored, and thread_result
\* returns
ThreadResultReturn(c) ==
    /\ call[c].pc = "blocked"
    /\ call[c].op = "thread_result"
    /\ LET h == call[c].thread
           r == thread_result(0, threads[h].retval)
       IN /\ pthread_join_ready(h)
          /\ threads' = [threads EXCEPT ![h].state = "joined"]
          /\ call' = [call EXCEPT ![c] = Idle]
          /\ last' = [Done("thread_result", r) EXCEPT
                         !.thread = h, !.value = r.value,
                         !.tstate = call[c].tstate]
    /\ UNCHANGED <<MAGMA_PEDANTIC, thread_stack_size, heap, ncalls>>

\* caller c calls thread_signal(h, sig)
ThreadSignal(c) ==
    /\ call[c].pc = "idle"
    /\ ncalls < MaxCalls
    /\ ncalls' = ncalls + 1
    /\ \E h \in ThreadIds, sig \in Signals :
         \E ret \in KillStatuses(h, sig) :
           LET r == thread_signal(ret)
           IN last' = [Done("thread_signal", r) EXCEPT
                          !.thread = h, !.tstate = threads[h].state]
    /\ UNCHANGED <<MAGMA_PEDANTIC, thread_stack_size, threads, heap, call>>

\* caller c calls thread_cancel(h)
ThreadCancel(c) ==
    /\ call[c].pc = "idle"
    /\ ncalls < MaxCalls
    /\ ncalls' = ncalls + 1
    /\ \E h \in ThreadIds :
         \E ret \in CancelStatuses(h) :
           LET r == thread_cancel(MAGMA_PEDANTIC, ret)
           IN /\ threads' = IF ret = 0 /\ Alive(h)
                            THEN [threads EXCEPT ![h].cancelpending = TRUE]
                            ELSE threads
              /\ last' = [Done("thread_cancel", r) EXCEPT
                             !.thread = h, !.tstate = threads[h].state,
                             !.tcancel = threads[h].cancelstate]
    /\ UNCHANGED <<MAGMA_PEDANTIC, thread_stack_size, heap, call>>

\* ------------------------------------------------------- launched threads
\* the platform starts the entry function of a created thread
ThreadStart(t) ==
    /\ threads[t].state = "created"
    /\ threads' = [threads EXCEPT ![t].state = "running",
                                  ![t].runs = threads[t].runs + 1]
    /\ UNCHANGED <<MAGMA_PEDANTIC, thread_stack_size, heap, call, last, ncalls>>

\* the entry function returns its exit value
ThreadReturn(t) ==
    /\ threads[t].state = "running"
    /\ threads' = [threads EXCEPT
                      ![t].state = "exited",
                      ![t].retval = EntryFn(threads[t].function, threads[t].data),
                      ![t].cancelstate = "enable",
                      ![t].cancelpending = FALSE]
    /\ UNCHANGED <<MAGMA_PEDANTIC, thread_stack_size, heap, call, last, ncalls>>

\* the thread reaches a cancellation point with a request pending
CancelPoint(t) ==
    /\ threads[t].state = "running"
    /\ threads[t].cancelpending
    /\ threads[t].cancelstate = "enable"
    /\ threads' = [threads EXCEPT ![t].state = "exited",
                                  ![t].retval = PTHREAD_CANCELED,
                                  ![t].cancelpending = FALSE]
    /\ UNCHANGED <<MAGMA_PEDANTIC, thread_stack_size, heap, call, last, ncalls>>

\* the running thread t calls thread_cancel_enable()
ThreadCancelEnable(t) ==
    /\ threads[t].state = "running"
    /\ threads' = thread_cancel_enable(threads, t)
    /\ UNCHANGED <<MAGMA_PEDANTIC, thread_stack_size, heap, call, last, ncalls>>

\* the running thread t calls thread_cancel_disable()
ThreadCancelDisable(t) ==
    /\ threads[t].state = "running"
    /\ threads' = thread_cancel_disable(threads, t)
    /\ UNCHANGED <<MAGMA_PEDANTIC, thread_stack_size, heap, call, last, ncalls>>

Next ==
    \/ \E c \in Callers : ThreadLaunch(c)
    \/ \E c \in Callers : ThreadAlloc(c)
    \/ \E c \in Callers : ThreadJoin(c)
    \/ \E c \in Callers : ThreadResult(c)
    \/ \E c \in Callers : ThreadJoinReturn(c)
    \/ \E c \in Callers : ThreadResultReturn(c)
    \/ \E c \in Callers : ThreadSignal(c)
    \/ \E c \in Callers : ThreadCancel(c)
    \/ \E t \in ThreadIds : ThreadStart(t)
    \/ \E t \in ThreadIds : ThreadReturn(t)
    \/ \E t \in ThreadIds : CancelPoint(t)
    \/ \E t \in ThreadIds : ThreadCancelEnable(t)
    \/ \E t \in ThreadIds : ThreadCancelDisable(t)

Spec == Init /\ [][Next]_vars

\* ------------------------------------------------------------------ claims
Called(calls, fn) == PosOf(calls, fn) # 0
Failed(calls, fn) == Called(calls, fn) /\ StatusOf(calls, fn) # 0
Passed(calls, fn) == Called(calls, fn) /\ StatusOf(calls, fn) = 0

\* the calls of a trace other than those of fns, in order
Without(calls, fns) == SelectSeq(calls, LAMBDA x : x.fn \notin fns)
NamesOf(calls) == [i \in 1..Len(calls) |-> calls[i].fn]
IsPrefix(s, t) == Len(s) <= Len(t) /\ \A i \in 1..Len(s) : s[i] = t[i]

LaunchSteps == <<"pthread_attr_init", "pthread_attr_setstacksize", "pthread_create">>

\* a wrapper call that does not block was made and returned in this step
Returned(op) == ncalls' = ncalls + 1 /\ call' = call /\ last'.op = op

\* the number of threads the platform has created so far
NumCreated == Cardinality({t \in ThreadIds : threads[t].state # "free"})

\* C1: when thread_launch returns (called directly or from thread_alloc) the
\* attribute structure has been destroyed exactly once if pthread_attr_init
\* succeeded and never if it failed, and it is not used after the destroy.
AttrReleased ==
    last.op \in {"thread_launch", "thread_alloc"} =>
        LET cs == last.calls
        IN /\ Count(cs, "pthread_attr_init") <= 1
           /\ Count(cs, "pthread_attr_destroy")
                 = IF Passed(cs, "pthread_attr_init") THEN 1 ELSE 0
           /\ Called(cs, "pthread_attr_destroy") =>
                 \A k \in 1..Len(cs) :
                    cs[k].fn \in {"pthread_attr_init", "pthread_attr_setstacksize",
                                  "pthread_create"}
                       => k < PosOf(cs, "pthread_attr_destroy")

\* C1 witness: a launch whose stack-size step failed after a successful
\* attribute init, with the structure destroyed once.
AttrReleasedWitness ==
    /\ last.op = "thread_launch"
    /\ Passed(last.calls, "pthread_attr_init")
    /\ Failed(last.calls, "pthread_attr_setstacksize")
    /\ Count(last.calls, "pthread_attr_destroy") = 1

\* C2: thread_launch runs attribute init, stack-size set, thread create in
\* that order and stops at the first failing step, whose status it returns;
\* a new thread exists after the call if and only if it returned 0; with a
\* rejected stack size the stack-size status comes back and pthread_create is
\* never called.
LaunchStopsAtFirstFailure ==
    /\ [](last.op = "thread_launch" =>
            LET steps == Without(last.calls, {"pthread_attr_destroy"})
            IN /\ steps # <<>>
               /\ IsPrefix(NamesOf(steps), LaunchSteps)
               /\ \A k \in 1..(Len(steps) - 1) : steps[k].st = 0
               /\ last.result = steps[Len(steps)].st
               /\ last.result = 0 => Len(steps) = Len(LaunchSteps)
               /\ (last.thread # NoThread) <=> (last.result = 0)
               /\ pthread_attr_setstacksize(thread_stack_size) # 0 =>
                     /\ last.result \in {pthread_attr_setstacksize(thread_stack_size)}
                                           \cup (AttrInitStatuses \ {0})
                     /\ ~Called(last.calls, "pthread_create"))
    /\ [][Returned("thread_launch") =>
            IF last'.result = 0
            THEN /\ threads[last'.thread].state = "free"
                 /\ threads'[last'.thread].state = "created"
                 /\ \A t \in ThreadIds \ {last'.thread} : threads'[t] = threads[t]
            ELSE threads' = threads]_vars

\* C2 witness: a launch under a rejected stack size returned the stack-size
\* status without creating a thread.
LaunchStopsWitness ==
    /\ last.op = "thread_launch"
    /\ Failed(last.calls, "pthread_attr_setstacksize")
    /\ last.result = pthread_attr_setstacksize(thread_stack_size)
    /\ ~Called(last.calls, "pthread_create")
    /\ NumCreated = 0

\* the target of the last call had terminated when the call was made
TargetTerminated == last.tstate \in {"exited", "joined"}

\* C3 as claimed: thread_cancel on a target that has already terminated
\* returns success and writes no log entry.
CancelTerminatedSucceeds ==
    (last.op = "thread_cancel" /\ TargetTerminated) =>
        /\ last.result = 0
        /\ last.logged = <<>>

\* C3 as amended: thread_cancel on a target that has already terminated makes
\* one pthread_cancel call, returns its status unchanged (0, or the error
\* ESRCH when the platform reports no such thread) and writes no log entry.
CancelTerminatedUnlogged ==
    (last.op = "thread_cancel" /\ TargetTerminated) =>
        /\ Count(last.calls, "pthread_cancel") = 1
        /\ last.result = StatusOf(last.calls, "pthread_cancel")
        /\ last.result \in {0, ESRCH}
        /\ last.logged = <<>>

\* C3 witness: a cancel of an exited, not yet joined thread came back ESRCH
\* with nothing logged, in the build that logs.
CancelTerminatedWitness ==
    /\ MAGMA_PEDANTIC
    /\ last.op = "thread_cancel"
    /\ last.tstate = "exited"
    /\ last.result = ESRCH
    /\ last.logged = <<>>

\* C4: when thread_alloc returns, the handle storage is not leaked: after a
\* failed launch the block got from mm_alloc has been freed exactly once, as
\* the last thing before NULL is returned; after a success the block is still
\* allocated, was never freed, holds the new thread id and is the pointer
\* returned.
HandleStorageNotLeaked ==
    last.op = "thread_alloc" =>
        LET cs == last.calls
            p  == StatusOf(cs, "mm_alloc")
        IN /\ Count(cs, "mm_alloc") = 1
           /\ PosOf(cs, "mm_alloc") = 1
           /\ IF p = NULL
              THEN last.result = NULL /\ ~Called(cs, "mm_free")
              ELSE IF last.thread = NoThread
              THEN /\ last.result = NULL
                   /\ Count(cs, "mm_free") = 1
                   /\ cs[Len(cs)] = PCall("mm_free", p)
                   /\ ~heap[p].used
              ELSE /\ last.result = p
                   /\ ~Called(cs, "mm_free")
                   /\ heap[p].used
                   /\ heap[p].val = last.thread
           /\ \A a \in Blocks : heap[a].used => heap[a].val # NoThread

\* C4 witness: thread_alloc got a block, thread creation failed, the block
\* was freed once and NULL returned.
HandleStorageWitness ==
    /\ last.op = "thread_alloc"
    /\ StatusOf(last.calls, "mm_alloc") # NULL
    /\ Failed(last.calls, "pthread_create")
    /\ Count(last.calls, "mm_free") = 1
    /\ last.result = NULL

\* C5: when mm_alloc fails, thread_alloc returns NULL having made no other
\* platform call, and no thread is created by the call; in every thread_alloc
\* the allocation comes before any step of the launch.
AllocFailureCreatesNothing ==
    /\ [](last.op = "thread_alloc" =>
            /\ PosOf(last.calls, "mm_alloc") = 1
            /\ StatusOf(last.calls, "mm_alloc") = NULL =>
                  /\ last.calls = <<PCall("mm_alloc", NULL)>>
                  /\ last.result = NULL
                  /\ last.thread = NoThread)
    /\ [][(Returned("thread_alloc") /\ StatusOf(last'.calls, "mm_alloc") = NULL)
            => threads' = threads /\ heap' = heap]_vars

\* C5 witness: a thread_alloc whose allocation failed returned NULL while the
\* platform could still have created a thread.
AllocFailureWitness ==
    /\ last.op = "thread_alloc"
    /\ last.calls = <<PCall("mm_alloc", NULL)>>
    /\ last.result = NULL
    /\ pthread_attr_setstacksize(thread_stack_size) = 0
    /\ FreeIds # {}

\* a launching wrapper call started a thread in this step
Launched ==
    /\ Returned("thread_launch") \/ Returned("thread_alloc")
    /\ last'.thread # NoThread

\* C6: a successful thread_result hands back the exit value of the thread the
\* handle names, which is what that thread's own entry function returned for
\* its own argument; whatever the interleaving, every launch yields a handle
\* no other thread has, bound to the function and argument of that launch,
\* and neither the binding nor a terminated thread's exit value ever changes.
JoinResultIsOwnExitValue ==
    /\ [](last.op = "thread_result" /\ last.result = 0 =>
            LET h == last.thread
            IN /\ threads[h].state = "joined"
               /\ last.value = threads[h].retval
               /\ last.value # PTHREAD_CANCELED =>
                     last.value = EntryFn(threads[h].function, threads[h].data))
    /\ [][Launched =>
            LET h == last'.thread
            IN /\ threads[h].state = "free"
               /\ threads'[h].function = last'.function
               /\ threads'[h].data = last'.data
               /\ \A t \in ThreadIds \ {h} : threads'[t] = threads[t]]_vars
    /\ [][\A t \in ThreadIds :
            /\ threads[t].state # "free" =>
                  /\ threads'[t].function = threads[t].function
                  /\ threads'[t].data = threads[t].data
            /\ threads[t].state \in {"exited", "joined"} =>
                  threads'[t].retval = threads[t].retval]_vars

\* C6 witness: with two threads launched on different jobs, thread_result on
\* one returned that thread's value while the other, terminated with a
\* different value, is still to be joined.
JoinResultWitness ==
    /\ last.op = "thread_result"
    /\ last.result = 0
    /\ last.value = EntryFn(threads[last.thread].function, threads[last.thread].data)
    /\ \E t \in ThreadIds \ {last.thread} :
          /\ threads[t].state = "exited"
          /\ threads[t].retval \notin {last.value, PTHREAD_CANCELED}

\* C7: the entry function of a thread starts only once launch has created the
\* thread and runs exactly once; thread_join and thread_result return success
\* only after the target has terminated, the caller staying blocked in every
\* state where it has not.
LaunchJoinOrdering ==
    /\ [](\A t \in ThreadIds :
            threads[t].runs = IF threads[t].state \in {"free", "created"}
                              THEN 0 ELSE 1)
    /\ [](last.op \in {"thread_join", "thread_result"} /\ last.result = 0 =>
            /\ threads[last.thread].state = "joined"
            /\ threads[last.thread].runs = 1)
    /\ [][\A t \in ThreadIds :
            threads'[t].runs # threads[t].runs => threads[t].state = "created"]_vars
    /\ [][\A c \in Callers :
            call[c].pc = "blocked" =>
               IF threads[call[c].thread].state = "exited"
               THEN call'[c] # call[c] =>
                       /\ last'.op = call[c].op
                       /\ last'.thread = call[c].thread
                       /\ last'.result = 0
               ELSE call'[c] = call[c]]_vars

\* C7 witness: a thread_join entered while the target had not terminated came
\* back with success, the target having run once and been reaped.
LaunchJoinWitness ==
    /\ last.op = "thread_join"
    /\ last.result = 0
    /\ last.tstate \in {"created", "running"}
    /\ threads[last.thread].state = "joined"
    /\ threads[last.thread].runs = 1

\* C8: thread_join and thread_result make exactly one pthread_join call and
\* return its status unchanged; on a handle that names no thread or one
\* already joined the call fails and writes one log entry carrying that
\* status; a successful join writes none.
JoinFailureReported ==
    last.op \in {"thread_join", "thread_result"} =>
        /\ Count(last.calls, "pthread_join") = 1
        /\ Len(last.calls) = 1
        /\ last.result = StatusOf(last.calls, "pthread_join")
        /\ last.tstate \in {"free", "joined"} => last.result # 0
        /\ IF last.result # 0
           THEN /\ Len(last.logged) = 1
                /\ last.logged[1].st = last.result
                /\ last.logged[1].line = IF last.op = "thread_join" THEN 87 ELSE 105
           ELSE last.logged = <<>>

\* C8 witness: a thread_join on a handle that had already been joined failed
\* with one log entry.
JoinFailureWitness ==
    /\ last.op = "thread_join"
    /\ last.tstate = "joined"
    /\ last.result # 0
    /\ Len(last.logged) = 1

\* the last call failed
CallFailed ==
    IF last.op = "thread_alloc" THEN last.result = NULL
    ELSE last.op # "none" /\ last.result # 0

\* the failures the logging policy keeps silent
SilentFailure ==
    \/ last.op = "thread_signal"
    \/ last.op = "thread_cancel" /\ last.result = ESRCH

\* C9 as claimed: every failure of thread_launch, thread_alloc, thread_join,
\* thread_result and thread_cancel writes a log entry, but for the two silent
\* cases: any thread_signal failure, and thread_cancel returning ESRCH.
LoggingPolicy ==
    CallFailed => IF SilentFailure THEN last.logged = <<>>
                                   ELSE last.logged # <<>>

\* C9 as amended: the policy holds as claimed for thread_launch, thread_alloc,
\* thread_join, thread_result and thread_signal; a thread_cancel failure
\* other than ESRCH is always returned as the error but is logged only in a
\* build with MAGMA_PEDANTIC: without it thread_cancel never writes a log entry.
LoggingPolicyByBuild ==
    /\ CallFailed =>
          IF SilentFailure \/ (last.op = "thread_cancel" /\ ~MAGMA_PEDANTIC)
          THEN last.logged = <<>>
          ELSE last.logged # <<>>
    /\ last.op = "thread_cancel" =>
          last.result = StatusOf(last.calls, "pthread_cancel")

\* C9 witness: in the build with MAGMA_PEDANTIC a thread_cancel failed with a
\* status other than ESRCH, which was logged and returned.
LoggingPolicyWitness ==
    /\ MAGMA_PEDANTIC
    /\ last.op = "thread_cancel"
    /\ last.result \notin {0, ESRCH}
    /\ last.logged = <<LogEntry(134, last.result)>>

\* the reason a thread_alloc call failed, "none" when it did not
AllocCause(calls) ==
    IF StatusOf(calls, "mm_alloc") = NULL THEN "AllocationError"
    ELSE IF Failed(calls, "pthread_attr_init") THEN "AttributeInitError"
    ELSE IF Failed(calls, "pthread_attr_setstacksize") THEN "AttributeConfigError"
    ELSE IF Failed(calls, "pthread_create") THEN "CreateError"
    ELSE "none"

\* the log line that reports each reason
CauseLine(cause) ==
    CASE cause = "AllocationError"      -> 64
      [] cause = "AttributeInitError"   -> 33
      [] cause = "AttributeConfigError" -> 37
      [] cause = "CreateError"          -> 42

\* C10 as claimed: two thread_alloc calls that fail for different reasons
\* never return the same result.
AllocFailuresTyped ==
    [][(/\ Returned("thread_alloc")
        /\ last.op = "thread_alloc"
        /\ AllocCause(last.calls) # "none"
        /\ AllocCause(last'.calls) # "none"
        /\ AllocCause(last'.calls) # AllocCause(last.calls))
          => last'.result # last.result]_vars

\* C10 as amended: thread_alloc returns NULL exactly when it failed, whatever
\* the reason, so the returned value tells failure from success but not one
\* reason from another; the reason shows only in the first log entry written.
AllocFailureIsNull ==
    last.op = "thread_alloc" =>
        LET cause == AllocCause(last.calls)
        IN /\ (last.result = NULL) <=> (cause # "none")
           /\ cause # "none" =>
                 /\ last.logged # <<>>
                 /\ last.logged[1].line = CauseLine(cause)

\* C10 witness: a thread_alloc that failed in pthread_attr_init, after the
\* allocation succeeded, returned NULL.
AllocFailureIsNullWitness ==
    /\ last.op = "thread_alloc"
    /\ AllocCause(last.calls) = "AttributeInitError"
    /\ last.result = NULL

\* thread t is terminated by a cancellation request in this step
Cancelled(t) ==
    /\ threads[t].state # "exited"
    /\ threads'[t].state = "exited"
    /\ threads'[t].retval = PTHREAD_CANCELED

\* a thread_cancel call on target h returned in this step
CancelRequested(h) == Returned("thread_cancel") /\ last'.thread = h

\* C11: thread_cancel_enable and thread_cancel_disable set the cancellability
\* of the calling thread to the state asked for and change nothing else of
\* any thread; a thread whose cancellability is disabled is not terminated by
\* a thread_cancel from elsewhere: the request stays pending while the thread
\* runs, and takes effect only once the thread has enabled cancellation
\* again and reaches a cancellation point.
CancellabilityIsOwn ==
    /\ [][\A t \in ThreadIds :
            /\ ThreadCancelEnable(t) =>
                  threads' = [threads EXCEPT ![t].cancelstate = "enable"]
            /\ ThreadCancelDisable(t) =>
                  threads' = [threads EXCEPT ![t].cancelstate = "disable"]]_vars
    /\ [][\A t \in ThreadIds :
            threads'[t].cancelstate # threads[t].cancelstate =>
               /\ threads[t].state = "running"
               /\ \A u \in ThreadIds \ {t} : threads'[u] = threads[u]]_vars
    /\ [][\A t \in ThreadIds :
            /\ (threads[t].state = "running" /\ threads[t].cancelstate = "disable")
                  => ~Cancelled(t)
            /\ (CancelRequested(t) /\ threads[t].state = "running"
                   /\ threads[t].cancelstate = "disable") =>
                  /\ threads'[t].cancelpending
                  /\ threads' = [threads EXCEPT ![t].cancelpending = TRUE]
            /\ (threads[t].cancelpending /\ threads'[t].state = "running") =>
                  threads'[t].cancelpending
            /\ Cancelled(t) =>
                  /\ threads[t].state = "running"
                  /\ threads[t].cancelpending
                  /\ threads[t].cancelstate = "enable"]_vars

\* C11 witness: the last thread_cancel was made on a running thread that had
\* disabled cancellation, succeeded, and the thread has since been
\* cancelled, while another thread launched beside it kept its own state.
CancellabilityWitness ==
    /\ last.op = "thread_cancel"
    /\ last.result = 0
    /\ last.tstate = "running"
    /\ last.tcancel = "disable"
    /\ threads[last.thread].state = "exited"
    /\ threads[last.thread].retval = PTHREAD_CANCELED
    /\ \E u \in ThreadIds \ {last.thread} :
          threads[u].state = "running" /\ threads[u].cancelstate = "disable"

\* what thread_cancel of the other build does for the status pthread_cancel
\* gave the last call
OtherBuild ==
    thread_cancel(~MAGMA_PEDANTIC, StatusOf(last.calls, "pthread_cancel"))

\* C12: in the build with MAGMA_PEDANTIC and in the build without it,
\* thread_cancel makes exactly one pthread_cancel call and returns its status
\* unchanged; for the same status the other build makes the same call and
\* returns the same value, the two differing only in the log entry the
\* MAGMA_PEDANTIC build writes for a status other than 0 and ESRCH; the
\* effect on the target is that of the one pthread_cancel call: a request
\* left pending on a live target when the status is 0, nothing otherwise.
CancelSameInBothBuilds ==
    /\ [](last.op = "thread_cancel" =>
            /\ Len(last.calls) = 1
            /\ Count(last.calls, "pthread_cancel") = 1
            /\ last.result = StatusOf(last.calls, "pthread_cancel")
            /\ OtherBuild.result = last.result
            /\ OtherBuild.calls = last.calls
            /\ IF last.result \in {0, ESRCH}
               THEN last.logged = <<>> /\ OtherBuild.logged = <<>>
               ELSE LET with == IF MAGMA_PEDANTIC THEN last.logged
                                                  ELSE OtherBuild.logged
                        without == IF MAGMA_PEDANTIC THEN OtherBuild.logged
                                                     ELSE last.logged
                    IN /\ with = <<LogEntry(134, last.result)>>
                       /\ without = <<>>)
    /\ [][\A h \in ThreadIds :
            CancelRequested(h) =>
               /\ heap' = heap
               /\ threads' = IF last'.result = 0
                                /\ threads[h].state \in {"created", "running"}
                             THEN [threads EXCEPT ![h].cancelpending = TRUE]
                             ELSE threads]_vars

\* C12 witness: in the build without MAGMA_PEDANTIC a thread_cancel returned
\* a status other than 0 and ESRCH with nothing logged, where the other build
\* returns the same status and logs it.
CancelSameWitness ==
    /\ ~MAGMA_PEDANTIC
    /\ last.op = "thread_cancel"
    /\ last.result \notin {0, ESRCH}
    /\ last.logged = <<>>
    /\ OtherBuild.result = last.result
    /\ OtherBuild.logged # <<>>
====
